---------------------------- MODULE Spec2Model ----------------------------
(***************************************************************************)
(* Model of src/src/stat_tests.py: KPI derivation (prepare_kpis), group    *)
(* aggregation (agg_by_group) and the four hypothesis-test wrappers.       *)
(*                                                                         *)
(* A DataFrame is a function from column names to equally long sequences   *)
(* of cells.  A cell is a record [t, n, d]:                                *)
(*   t = "num"     the float n/d (d > 0, fraction reduced)                 *)
(*   t = "nan"     NaN / None (missing)                                    *)
(*   t = "pinf"    +inf          t = "ninf"   -inf                         *)
(*   t = "numtext" a text cell spelling the number n/d (object dtype)      *)
(*   t = "text"    a text cell that spells no number                       *)
(* Python object identity (df.copy() against in-place assignment) is kept  *)
(* by a small heap: object name -> DataFrame.                              *)
(***************************************************************************)
EXTENDS Integers, Sequences, FiniteSets, TLC

VARIABLES df, argAfter, kdf, kdf2, call, res, libcalls, pc

vars == <<df, argAfter, kdf, kdf2, call, res, libcalls, pc>>

---------------------------------------------------------------------------
(* Bounds of the model *)

MaxRows == 2        \* rows of an input table, KPI specification
MaxAggRows == 3     \* rows of an input table, aggregation / test specifications
MaxMinCount == 2    \* min_count ranges over 0..MaxMinCount on small tables
BlockExtra == 1     \* block tables go up to WelchMinN + BlockExtra rows per group

---------------------------------------------------------------------------
(* float64 values and their arithmetic *)

RECURSIVE GCD(_, _)
GCD(a, b) == IF b = 0 THEN a ELSE GCD(b, a % b)

Abs(x) == IF x < 0 THEN -x ELSE x

NaN == [t |-> "nan", n |-> 0, d |-> 1]
PInf == [t |-> "pinf", n |-> 0, d |-> 1]
NInf == [t |-> "ninf", n |-> 0, d |-> 1]

\* the float n/d, d # 0, as a reduced fraction with positive denominator
Frac(n, d) ==
    LET g == GCD(Abs(n), Abs(d))
        s == IF d < 0 THEN -1 ELSE 1
    IN  [t |-> "num", n |-> (s * n) \div g, d |-> (s * d) \div g]

Num(n) == [t |-> "num", n |-> n, d |-> 1]
NumText(n) == [t |-> "numtext", n |-> n, d |-> 1]
Text == [t |-> "text", n |-> 0, d |-> 1]

IsNaN(x) == x.t = "nan"
NotNa(x) == x.t # "nan"

\* x > 0 on float64: False for NaN
GtZero(x) == \/ x.t = "pinf"
             \/ x.t = "num" /\ x.n > 0

\* x == 0 on float64
EqZero(x) == x.t = "num" /\ x.n = 0

\* float division x / y: never raises, a zero divisor gives inf or NaN
Div(x, y) ==
    IF IsNaN(x) \/ IsNaN(y) THEN NaN
    ELSE IF x.t = "num" /\ y.t = "num" THEN
        IF y.n = 0 THEN (IF x.n > 0 THEN PInf ELSE IF x.n < 0 THEN NInf ELSE NaN)
        ELSE Frac(x.n * y.d, x.d * y.n)
    ELSE IF x.t = "num" THEN Num(0)                      \* finite / inf
    ELSE IF y.t # "num" THEN NaN                         \* inf / inf
    ELSE IF (x.t = "pinf") = (y.n >= 0) THEN PInf ELSE NInf

Neg(x) == IF x.t = "num" THEN [x EXCEPT !.n = -x.n]
          ELSE IF x.t = "pinf" THEN NInf
          ELSE IF x.t = "ninf" THEN PInf
          ELSE x

\* float addition x + y
Add(x, y) ==
    IF IsNaN(x) \/ IsNaN(y) THEN NaN
    ELSE IF x.t = "num" /\ y.t = "num" THEN Frac(x.n * y.d + y.n * x.d, x.d * y.d)
    ELSE IF x.t = "num" THEN y
    ELSE IF y.t = "num" THEN x
    ELSE IF x.t = y.t THEN x ELSE NaN

Sub(x, y) == Add(x, Neg(y))

\* x >= y for finite floats
Geq(x, y) == x.n * y.d >= y.n * x.d

---------------------------------------------------------------------------
(* DataFrame helpers *)

Columns(d) == DOMAIN d

NRows(d) == IF Columns(d) = {} THEN 0 ELSE Len(d[CHOOSE c \in Columns(d) : TRUE])

\* d[c] = s : adds the column or overwrites it
SetCol(d, c, s) == [x \in Columns(d) \cup {c} |-> IF x = c THEN s ELSE d[x]]

\* pd.to_numeric(x, errors="coerce") on one cell
CoerceCell(x) ==
    IF x.t = "numtext" THEN [t |-> "num", n |-> x.n, d |-> x.d]
    ELSE IF x.t = "text" THEN NaN
    ELSE x

to_numeric(s) == [i \in 1..Len(s) |-> CoerceCell(s[i])]

\* variant: no copy, the local name keeps referring to the caller's object
DataFrameNoCopy(heap, ref) == [ref |-> ref, heap |-> heap]

\* df.copy(): a new object "local" holding the same values
DataFrameCopy(heap, ref) ==
    [ref |-> "local",
     heap |-> [o \in DOMAIN heap \cup {"local"} |->
                  IF o = "local" THEN heap[ref] ELSE heap[o]]]

\* df[c] = s on the object the local name refers to
SetItem(st, c, s) == [st EXCEPT !.heap[st.ref] = SetCol(@, c, s)]

Frame(st) == st.heap[st.ref]

---------------------------------------------------------------------------
(* prepare_kpis *)

KpiInputs == <<"TotalClaims", "TotalPremium">>

RECURSIVE CoerceLoop(_, _)
CoerceLoop(st, k) ==
    IF k > Len(KpiInputs) THEN st
    ELSE LET c == KpiInputs[k]
         IN  CoerceLoop(IF c \in Columns(Frame(st))
                        THEN SetItem(st, c, to_numeric(Frame(st)[c]))
                        ELSE st, k + 1)

\* variant: (x >= 0).astype(int)
HasClaimOfNonNegative(x) == IF GtZero(x) \/ EqZero(x) THEN Num(1) ELSE Num(0)

\* (x > 0).astype(int) on one cell
HasClaimOf(x) == IF GtZero(x) THEN Num(1) ELSE Num(0)

\* df["HasClaim"] = (df["TotalClaims"] > 0).astype(int)
StoreHasClaim(st) ==
    LET d == Frame(st)
    IN  SetItem(st, "HasClaim", [i \in 1..NRows(d) |-> HasClaimOf(d["TotalClaims"][i])])

\* df["ClaimSeverity"] = df["TotalClaims"] / df["HasClaim"]
StoreSeverity(st) ==
    LET d == Frame(st)
    IN  SetItem(st, "ClaimSeverity",
                [i \in 1..NRows(d) |-> Div(d["TotalClaims"][i], d["HasClaim"][i])])

\* df.loc[df["HasClaim"] == 0, "ClaimSeverity"] = np.nan
MaskSeverity(st) ==
    LET d == Frame(st)
    IN  SetItem(st, "ClaimSeverity",
                [i \in 1..NRows(d) |->
                    IF EqZero(d["HasClaim"][i]) THEN NaN ELSE d["ClaimSeverity"][i]])

\* variant: the quotient without the premium > 0 guard
LossRatioCellUnguarded(claims, premium) == Div(claims, premium)

\* one element of np.where(premium > 0, claims / premium, np.nan)
LossRatioCell(claims, premium) ==
    IF GtZero(premium) THEN Div(claims, premium) ELSE NaN

\* df["LossRatio"] = np.where(df["TotalPremium"] > 0, ..., np.nan)
StoreLossRatio(st) ==
    LET d == Frame(st)
    IN  SetItem(st, "LossRatio",
                [i \in 1..NRows(d) |->
                    LossRatioCell(d["TotalClaims"][i], d["TotalPremium"][i])])

MarginColumn(d) ==
    [i \in 1..NRows(d) |-> Sub(d["TotalPremium"][i], d["TotalClaims"][i])]

\* variant: the margin also stored over the TotalPremium input
StoreMarginOverPremium(st) ==
    SetItem(SetItem(st, "Margin", MarginColumn(Frame(st))),
            "TotalPremium", MarginColumn(Frame(st)))

\* df["Margin"] = df["TotalPremium"] - df["TotalClaims"]
StoreMargin(st) == SetItem(st, "Margin", MarginColumn(Frame(st)))

\* the whole function on the caller's object "arg"; the result names the
\* returned object and holds the heap after the call
prepare_kpis(d) ==
    LET s0 == DataFrameCopy([arg |-> d], "arg")
        s1 == CoerceLoop(s0, 1)
        s2 == StoreHasClaim(s1)
        s3 == StoreSeverity(s2)
        s4 == MaskSeverity(s3)
        s5 == StoreLossRatio(s4)
        s6 == StoreMargin(s5)
    IN  s6

---------------------------------------------------------------------------
(* Input tables *)

ClaimCells == {Num(-1), Num(0), Num(2), NumText(2), Text, NaN}
PremiumCells == {Num(-4), Num(0), Num(4), NumText(4), Text, NaN}

\* a passthrough column: row i holds the number i
RegionRamp(k) == [i \in 1..k |-> Num(i)]

\* df is a table of at most MaxRows rows
IsKpiTable(d) ==
    \E k \in 0..MaxRows :
        \E tc \in [1..k -> ClaimCells], tp \in [1..k -> PremiumCells] :
            d = [TotalClaims |-> tc, TotalPremium |-> tp, Region |-> RegionRamp(k)]

NoTable == [TotalClaims |-> <<>>]
NoCall == [fn |-> "none"]
NoRes == [none |-> TRUE]

---------------------------------------------------------------------------
(* Specification SpecKpi: prepare_kpis, once and then again on its result *)

InitKpi ==
    /\ IsKpiTable(df)
    /\ argAfter = df
    /\ kdf = NoTable
    /\ kdf2 = NoTable
    /\ call = NoCall
    /\ res = NoRes
    /\ libcalls = <<>>
    /\ pc = "start"

PrepareKpis ==
    /\ pc = "start"
    /\ LET r == prepare_kpis(df)
       IN  /\ kdf' = Frame(r)
           /\ argAfter' = r.heap["arg"]
    /\ pc' = "kpi"
    /\ UNCHANGED <<df, kdf2, call, res, libcalls>>

PrepareKpisAgain ==
    /\ pc = "kpi"
    /\ kdf2' = Frame(prepare_kpis(kdf))
    /\ pc' = "kpi2"
    /\ UNCHANGED <<df, argAfter, kdf, call, res, libcalls>>

NextKpi == PrepareKpis \/ PrepareKpisAgain

SpecKpi == InitKpi /\ [][NextKpi]_vars

---------------------------------------------------------------------------
(* groupby and the aggregations *)

\* the positions 1..n, in order
Positions(n) == [i \in 1..n |-> i]

\* the values of a set of finite floats, ascending
RECURSIVE SortedAsc(_)
SortedAsc(S) ==
    IF S = {} THEN <<>>
    ELSE LET lo == CHOOSE x \in S : \A y \in S : Geq(y, x)
         IN  <<lo>> \o SortedAsc(S \ {lo})

Range(s) == {s[i] : i \in 1..Len(s)}

\* df.groupby(col): the group labels, sorted (sort=True), NaN labels
\* dropped (dropna=True)
GroupKeys(d, col) == SortedAsc({x \in Range(d[col]) : NotNa(x)})

\* the row positions of the group labelled key, in table order
GroupRows(d, col, key) ==
    LET IsKey(i) == d[col][i] = key
    IN  SelectSeq(Positions(Len(d[col])), IsKey)

\* the values of column c at the row positions idx
Take(d, c, idx) == [k \in 1..Len(idx) |-> d[c][idx[k]]]

\* Series.dropna()
DropNa(s) == SelectSeq(s, NotNa)

\* "count": the number of non-missing values
Count(s) == Len(DropNa(s))

\* "nunique": the number of distinct non-missing values
NUnique(s) == Cardinality(Range(DropNa(s)))

RECURSIVE SumSeq(_)
SumSeq(s) == IF s = <<>> THEN Num(0) ELSE Add(Head(s), SumSeq(Tail(s)))

\* "sum": missing values are skipped
Sum(s) == SumSeq(DropNa(s))

\* "mean": missing values are skipped, NaN when nothing is left
Mean(s) == IF Count(s) = 0 THEN NaN ELSE Div(Sum(s), Num(Count(s)))

---------------------------------------------------------------------------
(* agg_by_group *)

\* variant: the row count whether or not PolicyID is present
NPoliciesRowCount(d, idx) == Len(idx)

\* n_policies=("PolicyID", "nunique") if "PolicyID" in df.columns
\*            else ("HasClaim", "count")
NPolicies(d, idx) ==
    IF "PolicyID" \in Columns(d)
    THEN NUnique(Take(d, "PolicyID", idx))
    ELSE Count(Take(d, "HasClaim", idx))

\* one row of df.groupby(group_col).agg(...).reset_index(), with claim_freq
AggRow(d, group_col, key) ==
    LET idx == GroupRows(d, group_col, key)
        np == NPolicies(d, idx)
        nc == Sum(Take(d, "HasClaim", idx))
    IN  [group |-> key,
         n_policies |-> np,
         n_claims |-> nc,
         mean_claim_severity |-> Mean(Take(d, "ClaimSeverity", idx)),
         mean_lossratio |-> Mean(Take(d, "LossRatio", idx)),
         mean_margin |-> Mean(Take(d, "Margin", idx)),
         claim_freq |-> Div(nc, Num(np))]

\* insert row r into the sequence g, sorted by n_policies descending, after
\* the rows that are not smaller
RECURSIVE InsertDesc(_, _)
InsertDesc(g, r) ==
    IF g = <<>> THEN <<r>>
    ELSE IF Head(g).n_policies >= r.n_policies
         THEN <<Head(g)>> \o InsertDesc(Tail(g), r)
         ELSE <<r>> \o g

RECURSIVE SortFrom(_, _)
SortFrom(g, k) ==
    IF k = 0 THEN <<>> ELSE InsertDesc(SortFrom(g, k - 1), g[k])

\* g.sort_values("n_policies", ascending=False)
SortValuesDesc(g) == SortFrom(g, Len(g))

\* variant: n_policies > min_count
MeetsMinCountStrict(r, min_count) == r.n_policies > min_count

\* g["n_policies"] >= min_count
MeetsMinCount(r, min_count) == r.n_policies >= min_count

agg_by_group(d, group_col, min_count) ==
    LET keys == GroupKeys(d, group_col)
        g == [k \in 1..Len(keys) |-> AggRow(d, group_col, keys[k])]
        sorted == SortValuesDesc(g)
        Keep(r) == MeetsMinCount(r, min_count)
    IN  SelectSeq(sorted, Keep)

---------------------------------------------------------------------------
(* Specification SpecAgg: prepare_kpis, then agg_by_group on its result *)

AggClaimCells == {Num(0), Num(2)}
RegionCells == {Num(1), Num(2), Num(3), NaN}
PolicyRegionCells == {Num(1), Num(2)}
PolicyCells == {Num(1), Num(2), NaN}

ConstCol(k, x) == [i \in 1..k |-> x]

\* d is a table without PolicyID, of at most MaxAggRows rows
IsAggTableNoPolicy(d) ==
    \E k \in 0..MaxAggRows :
        \E tc \in [1..k -> AggClaimCells], rg \in [1..k -> RegionCells] :
            d = [TotalClaims |-> tc, TotalPremium |-> ConstCol(k, Num(4)), Region |-> rg]

\* d is a table with PolicyID, of at most MaxAggRows rows
IsAggTablePolicy(d) ==
    \E k \in 0..MaxAggRows :
        \E tc \in [1..k -> AggClaimCells], rg \in [1..k -> PolicyRegionCells],
           pid \in [1..k -> PolicyCells] :
            d = [TotalClaims |-> tc, TotalPremium |-> ConstCol(k, Num(4)), Region |-> rg,
                 PolicyID |-> pid]

InitAgg ==
    /\ IsAggTableNoPolicy(df) \/ IsAggTablePolicy(df)
    /\ argAfter = df
    /\ kdf = NoTable
    /\ kdf2 = NoTable
    /\ call = NoCall
    /\ res = NoRes
    /\ libcalls = <<>>
    /\ pc = "start"

AggByGroup ==
    /\ pc = "kpi"
    /\ \E min_count \in 0..MaxMinCount :
          /\ call' = [fn |-> "agg_by_group", group_col |-> "Region",
                      min_count |-> min_count]
          /\ res' = agg_by_group(kdf, "Region", min_count)
    /\ pc' = "done"
    /\ UNCHANGED <<df, argAfter, kdf, kdf2, libcalls>>

NextAgg == PrepareKpis \/ AggByGroup

SpecAgg == InitAgg /\ [][NextAgg]_vars

---------------------------------------------------------------------------
(* The statistics library (scipy.stats, statsmodels) is outside the        *)
(* repository: what a call computes is an oracle value o, chosen by the    *)
(* caller of these operators from the outcomes the library can produce.    *)

MinObs == 5
WelchMinN == 30
ShapiroMax == 5000
DefaultMinCount == 30

\* the 0.05 of the normality decision
Alpha == Frac(1, 20)

\* x > y on floats: False when either is NaN
Gt(x, y) == GtZero(Sub(x, y))

\* a (statistic, pvalue) pair a test can return; NaN for degenerate input
LibResults ==
    {[statistic |-> Num(4), pvalue |-> Frac(1, 100)],
     [statistic |-> NaN, pvalue |-> NaN]}

Raised(kind) == [raised |-> kind]

\* what stats.shapiro gives: an exception, or a p-value (NaN included)
ShapiroRaise == [t |-> "raise", n |-> 0, d |-> 1]
ShapiroOutcomes == {ShapiroRaise, Alpha, Frac(1, 2), NaN}

\* x.isin([a, b]): NaN matches a NaN in the list
IsIn(x, a, b) == x = a \/ x = b

\* x == a on floats: False for NaN
EqVal(x, a) == NotNa(x) /\ NotNa(a) /\ x = a

\* df[mask]: the rows at the positions idx, every column
RowsAt(d, idx) == [c \in Columns(d) |-> Take(d, c, idx)]

\* df[df[group_col].isin([group_a, group_b])]
FilterPair(d, group_col, a, b) ==
    LET In(i) == IsIn(d[group_col][i], a, b)
    IN  RowsAt(d, SelectSeq(Positions(Len(d[group_col])), In))

---------------------------------------------------------------------------
(* chi2_test_frequency *)

\* agg["n_policies"] >= min_count
QualifiesRows(n, min_count) == n >= min_count

\* stats.chi2_contingency raises ValueError when an expected frequency is
\* zero, that is when a row or a column of the table sums to zero
Chi2Raises(table) ==
    \/ \E k \in 1..Len(table) : table[k][1] + table[k][2] = 0
    \/ \A k \in 1..Len(table) : table[k][1] = 0
    \/ \A k \in 1..Len(table) : table[k][2] = 0

RECURSIVE SumInts(_, _)
SumInts(table, j) ==
    IF table = <<>> THEN 0 ELSE Head(table)[j] + SumInts(Tail(table), j)

\* the expected frequencies: row total * column total / grand total
Expected(table) ==
    LET total == SumInts(table, 1) + SumInts(table, 2)
    IN  [k \in 1..Len(table) |->
            [j \in 1..2 |-> Frac((table[k][1] + table[k][2]) * SumInts(table, j), total)]]

chi2_test_frequency(d, group_col, min_count, o) ==
    LET keys == GroupKeys(d, group_col)
        all == [k \in 1..Len(keys) |->
                   LET hc == Take(d, "HasClaim", GroupRows(d, group_col, keys[k]))
                   IN  [group |-> keys[k], n_policies |-> Count(hc), n_claims |-> Sum(hc).n]]
        Keep(r) == QualifiesRows(r.n_policies, min_count)
        agg == SelectSeq(all, Keep)
        labels == [k \in 1..Len(agg) |-> agg[k].group]
        contingency == [k \in 1..Len(agg) |->
                           <<agg[k].n_policies - agg[k].n_claims, agg[k].n_claims>>]
        libcall(ret) == [fn |-> "chi2_contingency", args |-> contingency, ret |-> ret]
    IN  IF Len(agg) < 2
        THEN [res |-> [error |-> "not enough groups with min_count", groups |-> labels],
              calls |-> <<>>]
        ELSE IF Chi2Raises(contingency)
        THEN [res |-> Raised("ValueError"), calls |-> <<libcall(Raised("ValueError"))>>]
        ELSE [res |-> [statistic |-> o.lib.statistic,
                       pvalue |-> o.lib.pvalue,
                       dof |-> Len(agg) - 1,
                       expected |-> Expected(contingency),
                       groups_used |-> labels,
                       contingency_table |-> contingency],
              calls |-> <<libcall(o.lib)>>]

---------------------------------------------------------------------------
(* proportion_ztest_pair *)

\* variant: the groups in the order of their first rows (sort=False)
RECURSIVE FirstSeen(_, _)
FirstSeen(s, seen) ==
    IF s = <<>> THEN <<>>
    ELSE IF IsNaN(Head(s)) \/ Head(s) \in seen THEN FirstSeen(Tail(s), seen)
    ELSE <<Head(s)>> \o FirstSeen(Tail(s), seen \cup {Head(s)})

GroupedHasClaimAsEncountered(sub, group_col) ==
    LET keys == FirstSeen(sub[group_col], {})
    IN  [k \in 1..Len(keys) |->
            LET hc == Take(sub, "HasClaim", GroupRows(sub, group_col, keys[k]))
            IN  [group |-> keys[k], sum |-> Sum(hc).n, count |-> Count(hc)]]

\* sub.groupby(group_col)["HasClaim"].sum() and .count(): one entry per
\* group, in groupby's sorted label order
GroupedHasClaim(sub, group_col) ==
    LET keys == GroupKeys(sub, group_col)
    IN  [k \in 1..Len(keys) |->
            LET hc == Take(sub, "HasClaim", GroupRows(sub, group_col, keys[k]))
            IN  [group |-> keys[k], sum |-> Sum(hc).n, count |-> Count(hc)]]

proportion_ztest_pair(d, group_col, group_a, group_b, o) ==
    LET sub == FilterPair(d, group_col, group_a, group_b)
        g == GroupedHasClaim(sub, group_col)
        counts == [k \in 1..Len(g) |-> <<g[k].group, g[k].sum>>]
        nobs == [k \in 1..Len(g) |-> <<g[k].group, g[k].count>>]
        count2 == <<g[1].sum, g[2].sum>>
        nobs2 == <<g[1].count, g[2].count>>
    IN  IF Len(g) # 2
        THEN [res |-> [error |-> "groups not found or insufficient data",
                       counts |-> counts, nobs |-> nobs],
              calls |-> <<>>]
        ELSE [res |-> [statistic |-> o.lib.statistic,
                       pvalue |-> o.lib.pvalue,
                       count |-> count2,
                       nobs |-> nobs2],
              calls |-> <<[fn |-> "proportions_ztest", args |-> <<count2, nobs2>>,
                          ret |-> o.lib]>>]

---------------------------------------------------------------------------
(* kruskal_test_numeric *)

\* variant: the sample without dropna()
SampleAll(d, numeric_col, idx) == Take(d, numeric_col, idx)

\* grp[numeric_col].dropna().values
Sample(d, numeric_col, idx) == DropNa(Take(d, numeric_col, idx))

\* older scipy raises ValueError("All numbers are identical in kruskal"),
\* newer scipy returns NaN: either can happen on such input
KruskalMayRaise(groups) ==
    Cardinality(UNION {Range(groups[k]) : k \in 1..Len(groups)}) <= 1

kruskal_test_numeric(d, group_col, numeric_col, min_count, o) ==
    LET keys == GroupKeys(d, group_col)
        arr(k) == Sample(d, numeric_col, GroupRows(d, group_col, keys[k]))
        Keep(k) == Len(arr(k)) >= min_count
        kept == SelectSeq(Positions(Len(keys)), Keep)
        groups == [j \in 1..Len(kept) |-> arr(kept[j])]
        labels == [j \in 1..Len(kept) |-> keys[kept[j]]]
        libcall(ret) == [fn |-> "kruskal", args |-> groups, ret |-> ret]
    IN  IF Len(groups) < 2
        THEN [res |-> [error |-> "not enough groups with required observations",
                       groups_found |-> labels],
              calls |-> <<>>]
        ELSE IF o.kruskal_raises /\ KruskalMayRaise(groups)
        THEN [res |-> Raised("ValueError"), calls |-> <<libcall(Raised("ValueError"))>>]
        ELSE [res |-> [statistic |-> o.lib.statistic,
                       pvalue |-> o.lib.pvalue,
                       groups_used |-> labels],
              calls |-> <<libcall(o.lib)>>]

---------------------------------------------------------------------------
(* ttest_or_mannwhitney *)

\* sub[sub[group_col] == g][numeric_col].dropna()
PairSample(sub, group_col, g, numeric_col) ==
    LET Is(i) == EqVal(sub[group_col][i], g)
    IN  DropNa(Take(sub, numeric_col, SelectSeq(Positions(Len(sub[group_col])), Is)))

\* a.sample(5000) if len(a) > 5000 else a : which rows are drawn only
\* matters to the library's answer, which is an oracle value
ShapiroInput(a) == IF Len(a) > ShapiroMax THEN SubSeq(a, 1, ShapiroMax) ELSE a

\* the try block: normal is decided, or an exception leaves it False; the
\* second check is not run when the first raises
NormalityCheck(a, b, o) ==
    LET ca == [fn |-> "shapiro", args |-> Len(ShapiroInput(a)), ret |-> o.sh_a]
        cb == [fn |-> "shapiro", args |-> Len(ShapiroInput(b)), ret |-> o.sh_b]
    IN  IF o.sh_a = ShapiroRaise THEN [normal |-> FALSE, calls |-> <<ca>>]
        ELSE IF o.sh_b = ShapiroRaise THEN [normal |-> FALSE, calls |-> <<ca, cb>>]
        ELSE [normal |-> Gt(o.sh_a, Alpha) /\ Gt(o.sh_b, Alpha), calls |-> <<ca, cb>>]

\* variant: sizes > 30, as the docstring words it
UseWelchStrict(normal, na, nb) == normal /\ na > WelchMinN /\ nb > WelchMinN

\* normal and na >= 30 and nb >= 30
UseWelch(normal, na, nb) == normal /\ na >= WelchMinN /\ nb >= WelchMinN

\* variant: na < 5 and nb < 5
TooFewOneSided(na, nb) == na < MinObs /\ nb < MinObs

\* na < 5 or nb < 5
TooFew(na, nb) == na < MinObs \/ nb < MinObs

ttest_or_mannwhitney(d, group_col, group_a, group_b, numeric_col, o) ==
    LET sub == FilterPair(d, group_col, group_a, group_b)
        a == PairSample(sub, group_col, group_a, numeric_col)
        b == PairSample(sub, group_col, group_b, numeric_col)
        na == Len(a)
        nb == Len(b)
        nc == NormalityCheck(a, b, o)
        welch == UseWelch(nc.normal, na, nb)
    IN  IF TooFew(na, nb)
        THEN [res |-> [error |-> "too few observations", n_a |-> na, n_b |-> nb],
              calls |-> <<>>]
        ELSE [res |-> [test |-> IF welch THEN "t-test (Welch)" ELSE "Mann-Whitney U",
                       statistic |-> o.lib.statistic,
                       pvalue |-> o.lib.pvalue,
                       n_a |-> na,
                       n_b |-> nb],
              calls |-> nc.calls \o
                        <<[fn |-> IF welch THEN "ttest_ind" ELSE "mannwhitneyu",
                           args |-> <<na, nb>>, ret |-> o.lib]>>]

---------------------------------------------------------------------------
(* Specification SpecTests: prepare_kpis, then one hypothesis test on its  *)
(* result.  The tables are the small ones and block tables: nb rows of     *)
(* group 2, then na rows of group 1, then z rows of group 1 without a      *)
(* claim.                                                                  *)

TestRegionCells == {Num(1), Num(2), Num(3), NaN}

\* d is a small table, of at most MaxAggRows rows
IsSmallTestTable(d) ==
    \E k \in 0..MaxAggRows :
        \E tc \in [1..k -> AggClaimCells], rg \in [1..k -> TestRegionCells] :
            d = [TotalClaims |-> tc, TotalPremium |-> ConstCol(k, Num(4)), Region |-> rg]

BlockSizes == {MinObs - 1, MinObs, WelchMinN - 1, WelchMinN, WelchMinN + BlockExtra}

BlockTable(na, nb, z) ==
    [TotalClaims |-> ConstCol(nb, Num(3)) \o ConstCol(na, Num(2)) \o ConstCol(z, Num(0)),
     TotalPremium |-> ConstCol(nb + na + z, Num(4)),
     Region |-> ConstCol(nb, Num(2)) \o ConstCol(na, Num(1)) \o ConstCol(z, Num(1))]

IsBlockTable(d) ==
    \E na \in BlockSizes, nb \in BlockSizes, z \in 0..1 : d = BlockTable(na, nb, z)

InitTests ==
    /\ IsSmallTestTable(df) \/ IsBlockTable(df)
    /\ argAfter = df
    /\ kdf = NoTable
    /\ kdf2 = NoTable
    /\ call = NoCall
    /\ res = NoRes
    /\ libcalls = <<>>
    /\ pc = "start"

MinCounts == 0..MaxMinCount \cup {DefaultMinCount}
GroupArgs == {Num(1), Num(2), Num(3)}
NumericCols == {"ClaimSeverity", "Margin"}

Chi2TestFrequency ==
    /\ pc = "kpi"
    /\ \E min_count \in MinCounts, lib \in LibResults :
          LET r == chi2_test_frequency(kdf, "Region", min_count, [lib |-> lib])
          IN  /\ call' = [fn |-> "chi2_test_frequency", group_col |-> "Region",
                          min_count |-> min_count]
              /\ res' = r.res
              /\ libcalls' = r.calls
    /\ pc' = "done"
    /\ UNCHANGED <<df, argAfter, kdf, kdf2>>

ProportionZtestPair ==
    /\ pc = "kpi"
    /\ \E a \in GroupArgs, b \in GroupArgs, lib \in LibResults :
          LET r == proportion_ztest_pair(kdf, "Region", a, b, [lib |-> lib])
          IN  /\ call' = [fn |-> "proportion_ztest_pair", group_col |-> "Region",
                          group_a |-> a, group_b |-> b]
              /\ res' = r.res
              /\ libcalls' = r.calls
    /\ pc' = "done"
    /\ UNCHANGED <<df, argAfter, kdf, kdf2>>

KruskalTestNumeric ==
    /\ pc = "kpi"
    /\ \E min_count \in MinCounts, numeric_col \in NumericCols,
          lib \in LibResults, raises \in BOOLEAN :
          LET r == kruskal_test_numeric(kdf, "Region", numeric_col, min_count,
                                        [lib |-> lib, kruskal_raises |-> raises])
          IN  /\ call' = [fn |-> "kruskal_test_numeric", group_col |-> "Region",
                          numeric_col |-> numeric_col, min_count |-> min_count]
              /\ res' = r.res
              /\ libcalls' = r.calls
    /\ pc' = "done"
    /\ UNCHANGED <<df, argAfter, kdf, kdf2>>

TtestOracles ==
    {[lib |-> lib, sh_a |-> sh_a, sh_b |-> sh_b] :
        lib \in LibResults, sh_a \in ShapiroOutcomes, sh_b \in ShapiroOutcomes}

\* the library's answers matter only to a call that gets past the size check
TtestOraclesFor(d, a, b, numeric_col) ==
    LET o == CHOOSE x \in TtestOracles : TRUE
    IN  IF "error" \in DOMAIN ttest_or_mannwhitney(d, "Region", a, b, numeric_col, o).res
        THEN {o}
        ELSE TtestOracles

TtestOrMannwhitney ==
    /\ pc = "kpi"
    /\ \E a \in GroupArgs, b \in GroupArgs, numeric_col \in NumericCols :
          \E o \in TtestOraclesFor(kdf, a, b, numeric_col) :
              LET r == ttest_or_mannwhitney(kdf, "Region", a, b, numeric_col, o)
              IN  /\ call' = [fn |-> "ttest_or_mannwhitney", group_col |-> "Region",
                              group_a |-> a, group_b |-> b, numeric_col |-> numeric_col]
                  /\ res' = r.res
                  /\ libcalls' = r.calls
    /\ pc' = "done"
    /\ UNCHANGED <<df, argAfter, kdf, kdf2>>

NextTests ==
    \/ PrepareKpis
    \/ Chi2TestFrequency
    \/ ProportionZtestPair
    \/ KruskalTestNumeric
    \/ TtestOrMannwhitney

SpecTests == InitTests /\ [][NextTests]_vars

---------------------------------------------------------------------------
(* Claims about prepare_kpis, checked under SpecKpi *)

KpiColumns == {"HasClaim", "ClaimSeverity", "LossRatio", "Margin"}

KpiDone == pc \in {"kpi", "kpi2"}

Rows(d) == 1..NRows(d)

\* what a raw cell is as a number, read off the cell itself
SpellsNumber(x) == x.t \in {"num", "numtext"}
SpellsPositive(x) == SpellsNumber(x) /\ x.n > 0

\* C1: in every row of prepare_kpis's output HasClaim is 0 or 1, it is 1
\* exactly when the row's TotalClaims is a number > 0 (0 when zero, negative,
\* missing or not a number), ClaimSeverity equals TotalClaims in the rows
\* with HasClaim = 1 and is undefined in the rows with HasClaim = 0.
C1_HasClaimSeverity ==
    KpiDone =>
        \A i \in Rows(kdf) :
            /\ kdf["HasClaim"][i] \in {Num(0), Num(1)}
            /\ (kdf["HasClaim"][i] = Num(1)) <=> SpellsPositive(df["TotalClaims"][i])
            /\ kdf["HasClaim"][i] = Num(1) =>
                   /\ NotNa(kdf["ClaimSeverity"][i])
                   /\ kdf["ClaimSeverity"][i] = kdf["TotalClaims"][i]
                   /\ kdf["ClaimSeverity"][i].n * df["TotalClaims"][i].d
                          = df["TotalClaims"][i].n * kdf["ClaimSeverity"][i].d
            /\ kdf["HasClaim"][i] = Num(0) => IsNaN(kdf["ClaimSeverity"][i])

\* a claim row spelled as text next to a zero, negative or non-numeric row
C1_Witness ==
    /\ pc = "kpi"
    /\ \E i, j \in Rows(kdf) :
          /\ df["TotalClaims"][i].t = "numtext"
          /\ kdf["HasClaim"][i] = Num(1)
          /\ kdf["ClaimSeverity"][i] = Num(2)
          /\ df["TotalClaims"][j] \in {Num(0), Num(-1), Text, NaN}
          /\ kdf["HasClaim"][j] = Num(0)
          /\ IsNaN(kdf["ClaimSeverity"][j])

C3_Idempotent ==
    pc = "kpi2" =>
        /\ NRows(kdf2) = NRows(kdf)
        /\ \A c \in KpiColumns \cup {"TotalClaims", "TotalPremium"} : kdf2[c] = kdf[c]

\* the second application has run on a table whose inputs were text
C3_Witness ==
    /\ pc = "kpi2"
    /\ \E i, j \in Rows(df) :
          /\ df["TotalClaims"][i] = Text
          /\ df["TotalPremium"][i] = NumText(4)
          /\ df["TotalClaims"][j] = NumText(2)
          /\ kdf2["Margin"][j] = Sub(kdf["TotalPremium"][j], Num(2))
          /\ NotNa(kdf2["Margin"][j])

---------------------------------------------------------------------------
(* Claims about agg_by_group, checked under SpecAgg *)

AggDone == pc = "done" /\ call.fn = "agg_by_group"

\* read off the KPI table: the rows of a group, its policies, its claims
RowsOf(key) == {i \in Rows(kdf) : kdf["Region"][i] = key}
LabelsPresent == {kdf["Region"][i] : i \in Rows(kdf)} \ {NaN}
DistinctPolicies(key) == {kdf["PolicyID"][i] : i \in RowsOf(key)} \ {NaN}
PoliciesOf(key) ==
    IF "PolicyID" \in Columns(kdf)
    THEN Cardinality(DistinctPolicies(key))
    ELSE Cardinality(RowsOf(key))
ClaimsOf(key) == Cardinality({i \in RowsOf(key) : kdf["HasClaim"][i] = Num(1)})

\* C5: agg_by_group returns exactly the groups whose n_policies >= min_count,
\* each once, and its rows are ordered by n_policies non-increasing.
C5_MinCountSorted ==
    AggDone =>
        /\ {res[k].group : k \in 1..Len(res)}
               = {key \in LabelsPresent : PoliciesOf(key) >= call.min_count}
        /\ \A j, k \in 1..Len(res) : j # k => res[j].group # res[k].group
        /\ \A k \in 1..Len(res) :
               /\ res[k].n_policies = PoliciesOf(res[k].group)
               /\ res[k].n_policies >= call.min_count
        /\ \A j, k \in 1..Len(res) : j < k => res[j].n_policies >= res[k].n_policies

\* sorting has acted: the group labelled 2, with two policies, is returned
\* before the group labelled 1, with one
C5_Witness ==
    /\ AggDone
    /\ call.min_count = 1
    /\ Len(res) = 2
    /\ res[1].group = Num(2) /\ res[1].n_policies = 2
    /\ res[2].group = Num(1) /\ res[2].n_policies = 1

\* C10: on a table without PolicyID n_policies is the group's row count and
\* n_claims <= n_policies, so claim_freq lies in [0, 1]; with PolicyID
\* n_policies is the number of distinct PolicyID values of the group.
C10_PolicyCount ==
    AggDone =>
        \A k \in 1..Len(res) :
            LET r == res[k]
            IN  /\ r.n_claims = Num(ClaimsOf(r.group))
                /\ "PolicyID" \notin Columns(kdf) =>
                       /\ r.n_policies = Cardinality(RowsOf(r.group))
                       /\ r.n_claims.n <= r.n_policies
                       /\ r.claim_freq.t = "num"
                       /\ 0 <= r.claim_freq.n /\ r.claim_freq.n <= r.claim_freq.d
                /\ "PolicyID" \in Columns(kdf) =>
                       r.n_policies = Cardinality(DistinctPolicies(r.group))

\* with PolicyID: two claim rows of one policy give claim_freq = 2
C10_Witness ==
    /\ AggDone
    /\ "PolicyID" \in Columns(kdf)
    /\ \E k \in 1..Len(res) :
          /\ res[k].n_policies = 1
          /\ res[k].n_claims = Num(2)
          /\ Cardinality(RowsOf(res[k].group)) = 2
          /\ res[k].claim_freq = Num(2)

---------------------------------------------------------------------------
(* Claims about the hypothesis tests, checked under SpecTests *)

TestDone(fn) == pc = "done" /\ call.fn = fn

Returned == "raised" \notin DOMAIN res

\* read off the KPI table: the defined values of a column in a group
DefinedRows(key, c) == {i \in RowsOf(key) : NotNa(kdf[c][i])}
DefinedCount(key, c) == Cardinality(DefinedRows(key, c))

Chi2Qualifying == {key \in LabelsPresent : Cardinality(RowsOf(key)) >= call.min_count}
PairPresent == LabelsPresent \cap {call.group_a, call.group_b}
KruskalQualifying ==
    {key \in LabelsPresent : DefinedCount(key, call.numeric_col) >= call.min_count}
TtestTooFew ==
    \/ DefinedCount(call.group_a, call.numeric_col) < 5
    \/ DefinedCount(call.group_b, call.numeric_col) < 5

PreconditionUnmet ==
    \/ TestDone("chi2_test_frequency") /\ Cardinality(Chi2Qualifying) < 2
    \/ TestDone("proportion_ztest_pair") /\ Cardinality(PairPresent) < 2
    \/ TestDone("kruskal_test_numeric") /\ Cardinality(KruskalQualifying) < 2
    \/ TestDone("ttest_or_mannwhitney") /\ TtestTooFew

Diagnostics ==
    IF call.fn = "chi2_test_frequency" THEN {"groups"}
    ELSE IF call.fn = "proportion_ztest_pair" THEN {"counts", "nobs"}
    ELSE IF call.fn = "kruskal_test_numeric" THEN {"groups_found"}
    ELSE {"n_a", "n_b"}

\* C6: a test whose precondition is unmet returns, without raising, a result
\* with an error key and diagnostic context and without statistic or pvalue;
\* no returned result holds both error and statistic.
C6_SoftFailure ==
    pc = "done" =>
        /\ PreconditionUnmet =>
               /\ Returned
               /\ "error" \in DOMAIN res
               /\ Diagnostics \subseteq DOMAIN res
               /\ "statistic" \notin DOMAIN res
               /\ "pvalue" \notin DOMAIN res
        /\ ~("error" \in DOMAIN res /\ "statistic" \in DOMAIN res)

\* ttest_or_mannwhitney with one sample of 4 and one of 30 defined values
C6_Witness ==
    /\ TestDone("ttest_or_mannwhitney")
    /\ DefinedCount(call.group_a, call.numeric_col) = 4
    /\ DefinedCount(call.group_b, call.numeric_col) = 30
    /\ "error" \in DOMAIN res
    /\ res.n_a = 4 /\ res.n_b = 30

PairSucceeded == TestDone("proportion_ztest_pair") /\ Cardinality(PairPresent) = 2

\* the rows left by the filter, and the label met first among them
PairRows == {i \in Rows(kdf) : kdf["Region"][i] \in PairPresent}
FirstMet == kdf["Region"][CHOOSE i \in PairRows : \A j \in PairRows : i <= j]
OtherMet == CHOOSE key \in PairPresent : key # FirstMet
LowLabel == CHOOSE key \in PairPresent : \A other \in PairPresent : Geq(other, key)
HighLabel == CHOOSE key \in PairPresent : key # LowLabel

\* C7 as stated: count and nobs list the two groups in the order in which
\* they are first met among the filtered rows.
C7_AsStated ==
    PairSucceeded =>
        /\ res.count = <<ClaimsOf(FirstMet), ClaimsOf(OtherMet)>>
        /\ res.nobs = <<Cardinality(RowsOf(FirstMet)), Cardinality(RowsOf(OtherMet))>>

\* C7 (amended): for every table containing both groups, count and nobs are
\* two-element lists in ascending order of the group labels, count[i] and
\* nobs[i] describing the same group, whatever the order of the rows and of
\* the arguments group_a, group_b.
C7_SortedOrder ==
    PairSucceeded =>
        /\ Returned
        /\ res.count = <<ClaimsOf(LowLabel), ClaimsOf(HighLabel)>>
        /\ res.nobs = <<Cardinality(RowsOf(LowLabel)), Cardinality(RowsOf(HighLabel))>>

\* the group labelled 2 is met first and has no claim, the group labelled 1
\* has one: the result lists group 1 first
C7_Witness ==
    /\ PairSucceeded
    /\ FirstMet = Num(2)
    /\ ClaimsOf(Num(2)) = 0 /\ ClaimsOf(Num(1)) = 1
    /\ Cardinality(RowsOf(Num(2))) = 2
    /\ res.count = <<1, 0>>
    /\ res.nobs = <<1, 2>>

\* a p-value above 0.05, read off the value
AboveAlpha(p) == p.t = "num" /\ 20 * p.n > p.d

ShapiroReturned(k) == Len(libcalls) > k /\ libcalls[k].fn = "shapiro" /\ libcalls[k].ret.t # "raise"

NormalityPassed ==
    /\ ShapiroReturned(1) /\ AboveAlpha(libcalls[1].ret)
    /\ ShapiroReturned(2) /\ AboveAlpha(libcalls[2].ret)

RECURSIVE ValuesFrom(_, _, _)
ValuesFrom(key, c, i) ==
    IF i > NRows(kdf) THEN <<>>
    ELSE (IF i \in DefinedRows(key, c) THEN <<kdf[c][i]>> ELSE <<>>)
         \o ValuesFrom(key, c, i + 1)

IsAscendingListOf(list, S) ==
    /\ Len(list) = Cardinality(S)
    /\ {list[k] : k \in 1..Len(list)} = S
    /\ \A j, k \in 1..Len(list) : j < k => ~Geq(list[j], list[k])

\* C9: a group qualifies exactly when its number of defined values of
\* numeric_col is >= min_count; with at least 2 qualifying groups the test
\* is run once, over the samples of all of them, and a returned result lists
\* exactly the qualifying labels in groupby's (ascending) order as
\* groups_used; with fewer than 2 the error result lists exactly the
\* qualifying labels as groups_found.
C9_KruskalGroups ==
    TestDone("kruskal_test_numeric") =>
        IF Cardinality(KruskalQualifying) >= 2
        THEN /\ Len(libcalls) = 1
             /\ libcalls[1].fn = "kruskal"
             /\ Len(libcalls[1].args) = Cardinality(KruskalQualifying)
             /\ Returned =>
                    /\ "error" \notin DOMAIN res
                    /\ IsAscendingListOf(res.groups_used, KruskalQualifying)
                    /\ \A k \in 1..Len(res.groups_used) :
                           libcalls[1].args[k]
                               = ValuesFrom(res.groups_used[k], call.numeric_col, 1)
        ELSE /\ libcalls = <<>>
             /\ "error" \in DOMAIN res
             /\ IsAscendingListOf(res.groups_found, KruskalQualifying)

\* min_count 30 on ClaimSeverity: group 1 has 31 rows of which 30 are
\* defined, group 2 has 30, and both are used
C9_Witness ==
    /\ TestDone("kruskal_test_numeric")
    /\ call.min_count = 30
    /\ Cardinality(RowsOf(Num(1))) = 31
    /\ DefinedCount(Num(1), call.numeric_col) = 30
    /\ DefinedCount(Num(2), call.numeric_col) = 30
    /\ Returned
    /\ res.groups_used = <<Num(1), Num(2)>>

=============================================================================
